---- MODULE Spec2Model ----
(***************************************************************************)
(* imv image-source backends: libnsgif (GIF), libpng (PNG), libjxl         *)
(* (JPEG-XL).  One Source at a time is opened by one backend, from a path  *)
(* or from memory, stepped with load_first_frame / load_next_frame and     *)
(* released through the vtable's free.  The native decoders are external:  *)
(* their results are inputs drawn at each call.  malloc / calloc / realloc *)
(* called by the backends themselves do not fail.                           *)
(***************************************************************************)
EXTENDS Integers, Naturals, Sequences, FiniteSets, TLC

VARIABLES
    pc,        \* "none", "ready", "decoding", "released", "noSource", "crashed"
    backend,   \* "none", "gif", "png", "jxl"
    mode,      \* "none", "path", "memory"
    input,     \* the bytes / file handed to the open call
    result,    \* enum backend_result of the open call, "NONE" before it
    src,       \* TRUE once imv_source_create has produced *src
    pvt,       \* the struct private behind the Source: "none", "live", "freed"
    gif,       \* struct private of backend_libnsgif.c
    gifInfo,   \* nsgif_info_t of the native decoder
    png,       \* struct private of backend_libpng
    jxl,       \* struct private of backend_libjxl.c
    jxld,      \* the JxlDecoder local to first_frame
    ret,       \* what the last load call returned
    calls,     \* load calls made on the Source
    acq,       \* resources acquired so far
    rel        \* resources released so far

vars == <<pc, backend, mode, input, result, src, pvt, gif, gifInfo, png, jxl,
          jxld, ret, calls, acq, rel>>

----------------------------------------------------------------------------
(* Bounds *)

MaxLen == 9          \* longest PNG input, in bytes
MaxStreamLen == 2    \* longest GIF / JPEG-XL input, in bytes
MaxFrames == 3       \* most frames a stream holds
MaxCalls == 5        \* most load_next_frame calls after one load_first_frame
MaxFirst == 2        \* most load_first_frame calls on one Source
MaxDim == 2          \* largest width / height
MaxReads == 2        \* most read_memory requests libpng makes in one call
MaxLongFrames == 65  \* most frames of the long animation of SpecLong

(* Program constants *)

SIG_SIZE == 8
BACKEND_NB_CHANNELS == 4
BACKEND_DEFAULT_FRAMETIME == 100
BACKEND_NB_ALLOC_FRAMES == 64
SizeMod == 2^30   \* size_t arithmetic wraps; any modulus above every length
                  \* used here orders the wrapped values the same way

IntQuarter == 2^29   \* (INT_MAX + 1) / 4 for the 32-bit int of the build

Min(a, b) == IF a < b THEN a ELSE b

\* The int value of x * 4 for 0 <= x <= INT_MAX: the product wraps around
\* 2^32 into INT_MIN..INT_MAX.
Mul4Int(x) ==
    LET r == x % (2 * IntQuarter)
    IN  IF r < IntQuarter THEN 4 * r ELSE 4 * (r - 2 * IntQuarter)

----------------------------------------------------------------------------
(* Resource accounting shared by the three backends *)

NoCount ==
    [mmap |-> 0, fd |-> 0, file |-> 0, decoder |-> 0, pvt |-> 0,
     frame_list |-> 0, frame_buf |-> 0, caller |-> 0]

Bump(r, f) == [r EXCEPT ![f] = @ + 1]
BumpBy(r, f, n) == [r EXCEPT ![f] = @ + n]

\* munmap(p, len): releases a mapping, or the caller's buffer when handed it;
\* munmap(NULL, 0) fails with EINVAL and releases nothing.
Munmap(r, p) ==
    CASE p = "map" -> Bump(r, "mmap")
      [] p = "caller" -> Bump(r, "caller")
      [] OTHER -> r

\* struct imv_bitmap behind a returned image.  len: bytes malloc'ed for
\* data; copied: bytes written into it; srcpx: size of the buffer they were
\* copied from, in 4-byte pixels.
NoBitmap == [width |-> 0, height |-> 0, format |-> "none", len |-> 0,
             copied |-> 0, srcpx |-> 0]

NoRet == [op |-> "none", img |-> "NULL", frametime |-> 0, frame |-> -1,
          failed |-> FALSE, pushed |-> FALSE, bmp |-> NoBitmap]

\* first / next: load calls made; ok: the last load_first_frame gave an image
NoCalls == [first |-> 0, next |-> 0, ok |-> FALSE]

GifZero == [current_frame |-> 0, gif |-> "NULL", data |-> "NULL", len |-> 0]
GifInfoZero == [frame_count |-> 0, width |-> 0, height |-> 0, delay |-> <<>>]
\* struct private of the PNG backend, with a record of the reads made through
\* it.  inspected: bytes png_sig_cmp was handed; refused: read_memory
\* requests of the current call that returned without copying; copied: bytes
\* read_memory copied so far; hi: end of the highest byte of the caller's
\* buffer read so far, counted from its start.
PngZero == [file |-> "NULL", data |-> "NULL", len |-> 0, pos |-> 0,
            png |-> "NULL", info |-> "NULL",
            inspected |-> 0, refused |-> 0, copied |-> 0, hi |-> 0]
JxlZero == [data |-> "NULL", data_len |-> 0, owns_data |-> 0,
            width |-> 0, height |-> 0, is_animation |-> 0,
            frames |-> <<>>, nb_allocd_frames |-> 0,
            cur_frame |-> 0, nb_frames |-> 0]
JxldZero == [state |-> "none", phase |-> "none", last |-> "none",
             full_images |-> 0, created |-> 0,
             info |-> [tps_numerator |-> 0, tps_denominator |-> 0]]

Init ==
    /\ pc = "none"
    /\ backend = "none"
    /\ mode = "none"
    /\ input = [len |-> 0]
    /\ result = "NONE"
    /\ src = FALSE
    /\ pvt = "none"
    /\ gif = GifZero
    /\ gifInfo = GifInfoZero
    /\ png = PngZero
    /\ jxl = JxlZero
    /\ jxld = JxldZero
    /\ ret = NoRet
    /\ calls = NoCalls
    /\ acq = NoCount
    /\ rel = NoCount

\* An open call that ends without a Source.
OpenFails(b, m, in, r, a, d) ==
    /\ pc' = "noSource"
    /\ backend' = b
    /\ mode' = m
    /\ input' = in
    /\ result' = r
    /\ acq' = a
    /\ rel' = d
    /\ UNCHANGED <<src, pvt, gif, gifInfo, png, jxl, jxld, ret, calls>>

----------------------------------------------------------------------------
(* backend_libnsgif.c *)

\* Inputs of the GIF open calls: a length and what nsgif_data_scan makes of
\* the bytes ("VALID" only when they start with a GIF signature).
GifInputs ==
    { [len |-> l, sig |-> s] :
        l \in 0..MaxStreamLen, s \in {"VALID", "INVALID", "NOT_ENOUGH_BYTES"} }
GifInputOk(in) ==
    /\ in.sig = "VALID" => in.len > 0
    /\ in.len = 0 => in.sig = "NOT_ENOUGH_BYTES"

\* nsgif_data_scan: the results it can give on these bytes.
NsgifDataScan(in) ==
    IF in.sig = "VALID" THEN {"NSGIF_OK", "NSGIF_ERR_DATA"} ELSE {"NSGIF_ERR_DATA"}

\* nsgif_frame_info_t.delay values, in hundredths of a second.
DelayValues == {2, 10}

\* nsgif_info_t after a successful scan, with the delay of every frame.
GifInfos ==
    UNION { { [frame_count |-> n, width |-> w, height |-> h, delay |-> d] :
                w \in 1..MaxDim, h \in 1..MaxDim,
                d \in [0..(n - 1) -> DelayValues] } :
            n \in 1..MaxFrames }

Gif_open_memory ==
    /\ pc = "none"
    /\ \E in \in GifInputs, create \in {"NSGIF_OK", "NSGIF_ERR_OOM"} :
        /\ GifInputOk(in)
        /\ \E code \in NsgifDataScan(in) :
            IF create # "NSGIF_OK"
            THEN OpenFails("gif", "memory", in, "UNSUPPORTED",
                           Bump(acq, "pvt"), Bump(rel, "pvt"))
            ELSE IF code # "NSGIF_OK"
            THEN OpenFails("gif", "memory", in, "UNSUPPORTED",
                           Bump(Bump(acq, "pvt"), "decoder"),
                           Bump(Bump(rel, "pvt"), "decoder"))
            ELSE /\ pc' = "ready"
                 /\ backend' = "gif"
                 /\ mode' = "memory"
                 /\ input' = in
                 /\ result' = "SUCCESS"
                 /\ src' = TRUE
                 /\ pvt' = "live"
                 /\ gif' = [GifZero EXCEPT !.gif = "gif"]
                 /\ gifInfo' \in GifInfos
                 /\ acq' = Bump(Bump(acq, "pvt"), "decoder")
                 /\ UNCHANGED <<png, jxl, jxld, ret, calls, rel>>

\* The file behind a path: whether open, lseek and mmap succeed.  mmap of a
\* zero-length file fails with EINVAL.
PathEnvs ==
    { [open |-> o, seek |-> s, map |-> m] : o, s, m \in BOOLEAN }
MmapOk(env, len) == env.map /\ len > 0

Gif_open_path ==
    /\ pc = "none"
    /\ \E in \in GifInputs, env \in PathEnvs,
          create \in {"NSGIF_OK", "NSGIF_ERR_OOM"} :
        /\ GifInputOk(in)
        /\ \E code \in NsgifDataScan(in) :
            LET in2 == [len |-> in.len, sig |-> in.sig, env |-> env]
                fdA == Bump(acq, "fd")
                fdR == Bump(rel, "fd")
                mapA == Bump(Bump(fdA, "mmap"), "pvt")
                mapR == Bump(Munmap(fdR, "map"), "pvt")
            IN  IF ~env.open
                THEN OpenFails("gif", "path", in2, "BAD_PATH", acq, rel)
                ELSE IF ~env.seek
                THEN OpenFails("gif", "path", in2, "BAD_PATH", fdA, fdR)
                ELSE IF ~MmapOk(env, in.len)
                THEN OpenFails("gif", "path", in2, "BAD_PATH", fdA, fdR)
                ELSE IF create # "NSGIF_OK"
                THEN OpenFails("gif", "path", in2, "UNSUPPORTED", mapA, mapR)
                ELSE IF code # "NSGIF_OK"
                THEN OpenFails("gif", "path", in2, "UNSUPPORTED",
                               Bump(mapA, "decoder"), Bump(mapR, "decoder"))
                ELSE /\ pc' = "ready"
                     /\ backend' = "gif"
                     /\ mode' = "path"
                     /\ input' = in2
                     /\ result' = "SUCCESS"
                     /\ src' = TRUE
                     /\ pvt' = "live"
                     /\ gif' = [current_frame |-> 0, gif |-> "gif",
                                data |-> "map", len |-> in.len]
                     /\ gifInfo' \in GifInfos
                     /\ acq' = Bump(mapA, "decoder")
                     /\ rel' = fdR
                     /\ UNCHANGED <<png, jxl, jxld, ret, calls>>

\* bitmap_create: the frame buffer libnsgif decodes into, in pixels.
Gif_bitmap_create(width, height) == width * height

\* The byte length push_current_image computes for the bitmap.
Gif_bitmap_len(width, height) == 4 * width * height

\* Mutant: the frametime is the native delay, unconverted.
Gif_frametime_raw(delay) == delay

\* The frametime push_current_image reports for a native delay.
Gif_frametime(delay) == delay * 10

\* push_current_image: copy the decoded frame into a fresh bitmap and report
\* the delay of the frame at current_frame (idx).
Gif_push_current_image(idx) ==
    LET len == Gif_bitmap_len(gifInfo.width, gifInfo.height)
    IN  [op |-> "first", img |-> "IMG",
         frametime |-> Gif_frametime(gifInfo.delay[idx]), frame |-> idx,
         failed |-> FALSE, pushed |-> TRUE,
         bmp |-> [width |-> gifInfo.width, height |-> gifInfo.height,
                  format |-> "IMV_ABGR", len |-> len, copied |-> len,
                  srcpx |-> Gif_bitmap_create(gifInfo.width, gifInfo.height)]]

Gif_first_frame ==
    /\ pc = "ready"
    /\ backend = "gif"
    /\ calls.first < MaxFirst
    /\ gif' = [gif EXCEPT !.current_frame = 0]
    /\ \E code \in {"NSGIF_OK", "NSGIF_ERR_DATA"} :
        /\ ret' = IF code # "NSGIF_OK"
                  THEN [NoRet EXCEPT !.op = "first", !.frame = 0,
                                     !.failed = TRUE]
                  ELSE Gif_push_current_image(0)
        /\ calls' = [first |-> calls.first + 1, next |-> 0,
                     ok |-> code = "NSGIF_OK"]
    /\ UNCHANGED <<pc, backend, mode, input, result, src, pvt, gifInfo, png,
                   jxl, jxld, acq, rel>>

\* Mutant: the index advances by two.
GifNextIndex_skip(cur, n) == (cur + 2) % n

GifNextIndex(cur, n) == (cur + 1) % n

\* Mutant: a failed decode destroys the decoder.
Gif_decode_failed_destroys(g) == [g EXCEPT !.gif = "NULL"]

\* next_frame when nsgif_frame_decode fails: log and return, with the struct
\* as the index step left it.
Gif_decode_failed(g) == g

Gif_next_frame ==
    /\ pc = "ready"
    /\ backend = "gif"
    /\ calls.first > 0
    /\ calls.next < MaxCalls
    /\ LET idx == GifNextIndex(gif.current_frame, gifInfo.frame_count)
           g == [gif EXCEPT !.current_frame = idx]
       IN  \E code \in {"NSGIF_OK", "NSGIF_ERR_DATA"} :
             /\ gif' = IF code # "NSGIF_OK" THEN Gif_decode_failed(g) ELSE g
             /\ ret' = IF code # "NSGIF_OK"
                       THEN [NoRet EXCEPT !.op = "next", !.frame = idx,
                                          !.failed = TRUE]
                       ELSE [Gif_push_current_image(idx) EXCEPT !.op = "next"]
    /\ calls' = [calls EXCEPT !.next = @ + 1]
    /\ UNCHANGED <<pc, backend, mode, input, result, src, pvt, gifInfo, png,
                   jxl, jxld, acq, rel>>

\* free_private of the GIF backend, on a live struct private.
Gif_free_private ==
    /\ rel' = Bump(Munmap(IF gif.gif = "gif" THEN Bump(rel, "decoder") ELSE rel,
                          gif.data), "pvt")
    /\ UNCHANGED <<gif, gifInfo, png, jxl, jxld>>

----------------------------------------------------------------------------
(* backend_libpng (second translation unit of backend_libnsgif.c) *)

\* Inputs of the PNG open calls: a length and the number of leading bytes
\* that agree with the 8-byte PNG signature.
PngInputs ==
    { [len |-> l, agree |-> a] : l \in 0..MaxLen, a \in 0..SIG_SIZE }
PngInputOk(in) == in.agree <= Min(in.len, SIG_SIZE)

\* png_sig_cmp(data, 0, SIG_SIZE) compares SIG_SIZE bytes starting at data.
\* A disagreement inside the buffer gives non-zero; when the buffer is
\* shorter than SIG_SIZE and all of it agrees, the remaining bytes compared
\* lie beyond the buffer and either result is possible.
PngSigCmp(in) ==
    IF in.agree < Min(in.len, SIG_SIZE) THEN {1}
    ELSE IF in.len >= SIG_SIZE THEN {0}
    ELSE {0, 1}

\* init_private: "ok", or which of the two libpng constructors returned NULL.
InitPrivateResults == {"ok", "no_png", "no_info"}

\* setup_png: 1, or 0 when png_read_info / png_read_update_info longjmp.  A
\* file with nothing after the signature cannot be read; the memory reader
\* reports no error to libpng (read_memory returns silently).
SetupPng(in, m) ==
    IF m = "path" /\ in.len <= SIG_SIZE THEN {0} ELSE {0, 1}

\* Sizes of the read requests libpng makes (a byte, a chunk-header word).
ReadSizes == {1, 4}

\* The requests of one setup_png or png_read_image call, in order.
PngRequests == UNION { [1..n -> ReadSizes] : n \in 0..MaxReads }

Max(a, b) == IF a > b THEN a ELSE b

\* read_memory: a request larger than len - pos (size_t arithmetic) logs and
\* returns; libpng is not told and goes on with whatever `out` held.
\* Otherwise size bytes are copied from data + pos and pos advances.
Png_read_memory(p, size) ==
    IF (p.len - p.pos) % SizeMod < size
    THEN [p EXCEPT !.refused = @ + 1]
    ELSE [p EXCEPT !.pos = (@ + size) % SizeMod,
                   !.copied = @ + size,
                   !.hi = Max(@, SIG_SIZE + p.pos + size)]

RECURSIVE Png_read_all(_, _)
Png_read_all(p, reqs) ==
    IF reqs = <<>> THEN p
    ELSE Png_read_all(Png_read_memory(p, Head(reqs)), Tail(reqs))

\* The requests a libpng call makes: through read_memory in memory mode,
\* through libpng's own fread reader (none here) for a file.
PngReads(m) == IF m = "memory" THEN PngRequests ELSE { <<>> }

\* Mutant: read_end closes the file without clearing private->file.
Png_read_end_keeps_file(p, r) ==
    LET r1 == IF p.png # "NULL" THEN Bump(r, "decoder") ELSE r
        r2 == IF p.file # "NULL" THEN Bump(r1, "file") ELSE r1
    IN  [p |-> [p EXCEPT !.png = "NULL", !.info = "NULL"], r |-> r2]

\* read_end: destroy the read/info structs and close the file, once each.
Png_read_end(p, r) ==
    LET r1 == IF p.png # "NULL" THEN Bump(r, "decoder") ELSE r
        r2 == IF p.file # "NULL" THEN Bump(r1, "file") ELSE r1
    IN  [p |-> [p EXCEPT !.png = "NULL", !.info = "NULL", !.file = "NULL"],
         r |-> r2]

Png_opened(m, in, p, a, d) ==
    /\ pc' = "ready"
    /\ backend' = "png"
    /\ mode' = m
    /\ input' = in
    /\ result' = "SUCCESS"
    /\ src' = TRUE
    /\ pvt' = "live"
    /\ png' = p
    /\ acq' = a
    /\ rel' = d
    /\ UNCHANGED <<gif, gifInfo, jxl, jxld, ret, calls>>

PngPathEnvs == { [open |-> o, read |-> r] : o, r \in BOOLEAN }

Png_open_path ==
    /\ pc = "none"
    /\ \E in \in PngInputs, env \in PngPathEnvs, ip \in InitPrivateResults :
        /\ PngInputOk(in)
        /\ \E ok \in SetupPng(in, "path") :
            LET in2 == [len |-> in.len, agree |-> in.agree, env |-> env]
                fA == Bump(acq, "file")
                pA == Bump(Bump(fA, "pvt"), "decoder")
                p == [PngZero EXCEPT !.file = "file", !.png = "png",
                                     !.info = "info"]
                e == Png_read_end(p, rel)
            IN  IF ~env.open
                THEN OpenFails("png", "path", in2, "BAD_PATH", acq, rel)
                ELSE IF ~env.read
                THEN OpenFails("png", "path", in2, "BAD_PATH", fA, rel)
                ELSE IF in.len < SIG_SIZE
                THEN OpenFails("png", "path", in2, "UNSUPPORTED", fA, rel)
                ELSE IF in.agree # SIG_SIZE
                THEN OpenFails("png", "path", in2, "UNSUPPORTED", fA,
                               Bump(rel, "file"))
                ELSE IF ip = "no_png"
                THEN OpenFails("png", "path", in2, "UNSUPPORTED",
                               Bump(fA, "pvt"), Bump(rel, "pvt"))
                ELSE IF ip = "no_info"
                THEN OpenFails("png", "path", in2, "UNSUPPORTED", pA,
                               Bump(Bump(rel, "pvt"), "decoder"))
                ELSE IF ok = 0
                THEN OpenFails("png", "path", in2, "UNSUPPORTED", pA,
                               Bump(e.r, "pvt"))
                ELSE Png_opened("path", in2, p, pA, rel)

Png_open_memory ==
    /\ pc = "none"
    /\ \E in \in PngInputs, ip \in InitPrivateResults :
        /\ PngInputOk(in)
        /\ \E cmp \in PngSigCmp(in), ok \in SetupPng(in, "memory"),
              reqs \in PngReads("memory") :
            LET pA == Bump(Bump(acq, "pvt"), "decoder")
                p0 == [PngZero EXCEPT !.png = "png", !.info = "info",
                                      !.data = "caller",
                                      !.len = (in.len - SIG_SIZE) % SizeMod,
                                      !.inspected = SIG_SIZE]
                p == Png_read_all(p0, reqs)
                e == Png_read_end(p, rel)
            IN  IF cmp # 0
                THEN OpenFails("png", "memory", in, "UNSUPPORTED", acq, rel)
                ELSE IF ip = "no_png"
                THEN OpenFails("png", "memory", in, "UNSUPPORTED",
                               Bump(acq, "pvt"), Bump(rel, "pvt"))
                ELSE IF ip = "no_info"
                THEN OpenFails("png", "memory", in, "UNSUPPORTED", pA,
                               Bump(Bump(rel, "pvt"), "decoder"))
                ELSE IF ok = 0
                THEN OpenFails("png", "memory", in, "UNSUPPORTED", pA,
                               Bump(e.r, "pvt"))
                ELSE Png_opened("memory", in, p, pA, rel)

\* Mutant: the error path of load_image tears the handles down.
Png_load_failed_teardown(p, r) == Png_read_end(p, r)

\* load_image when png_read_image longjmps: the early return destroys nothing.
Png_load_failed(p, r) == [p |-> p, r |-> r]

\* png_get_rowbytes after setup_png: every pixel is four 8-bit channels
\* (gray_to_rgb, expand, strip_16, filler after).
Png_rowbytes(width) == 4 * width

\* The bitmap load_image builds: raw is stride * height bytes (size_t
\* arithmetic) and png_read_image writes every row of it.
Png_bitmap(width, height) ==
    LET stride == Png_rowbytes(width)
    IN  [width |-> width, height |-> height, format |-> "IMV_ABGR",
         len |-> stride * height, copied |-> stride * height,
         srcpx |-> width * height]

\* load_image: a longjmp out of png_read_image returns with the handles
\* untouched; otherwise read_end runs before the bitmap is wrapped.  The
\* backend is single-frame: after a successful load private->png is NULL and
\* the caller makes no further load call.
Png_load_image ==
    /\ pc = "ready"
    /\ backend = "png"
    /\ calls.first < MaxFirst
    /\ png.png # "NULL"
    /\ \E decoded \in BOOLEAN, w \in 1..MaxDim, h \in 1..MaxDim,
          reqs \in PngReads(mode) :
        /\ calls' = [first |-> calls.first + 1, next |-> 0, ok |-> decoded]
        /\ IF ~decoded
           THEN LET e == Png_load_failed(
                            Png_read_all([png EXCEPT !.refused = 0], reqs),
                            rel)
                IN  /\ png' = e.p
                    /\ rel' = e.r
                    /\ ret' = [NoRet EXCEPT !.op = "first", !.failed = TRUE]
           ELSE LET e == Png_read_end(
                            Png_read_all([png EXCEPT !.refused = 0], reqs),
                            rel)
                IN  /\ png' = e.p
                    /\ rel' = e.r
                    /\ ret' = [NoRet EXCEPT !.op = "first", !.img = "IMG",
                                            !.frame = 0, !.pushed = TRUE,
                                            !.bmp = Png_bitmap(w, h)]
    /\ UNCHANGED <<pc, backend, mode, input, result, src, pvt, gif, gifInfo,
                   jxl, jxld, acq>>

\* free_private of the PNG backend, on a live struct private.
Png_free_private ==
    LET e == Png_read_end(png, rel)
    IN  /\ png' = e.p
        /\ rel' = Bump(e.r, "pvt")
        /\ UNCHANGED <<gif, gifInfo, jxl, jxld>>

----------------------------------------------------------------------------
(* backend_libjxl.c *)

JxlInputs ==
    { [len |-> l, sig |-> g] :
        l \in 0..MaxStreamLen, g \in {"VALID", "INVALID", "NOT_ENOUGH_BYTES"} }
JxlInputOk(in) ==
    /\ in.sig = "VALID" => in.len > 0
    /\ in.len = 0 => in.sig = "NOT_ENOUGH_BYTES"

\* JxlSignatureCheck on these bytes.
JxlSignatureCheck(in) ==
    CASE in.sig = "NOT_ENOUGH_BYTES" -> {"JXL_SIG_NOT_ENOUGH_BYTES"}
      [] in.sig = "INVALID" -> {"JXL_SIG_INVALID"}
      [] OTHER -> {"JXL_SIG_CODESTREAM", "JXL_SIG_CONTAINER"}

Jxl_opened(m, in, p, a, d) ==
    /\ pc' = "ready"
    /\ backend' = "jxl"
    /\ mode' = m
    /\ input' = in
    /\ result' = "SUCCESS"
    /\ src' = TRUE
    /\ pvt' = "live"
    /\ jxl' = p
    /\ acq' = a
    /\ rel' = d
    /\ UNCHANGED <<gif, gifInfo, png, jxld, ret, calls>>

Jxl_open_memory ==
    /\ pc = "none"
    /\ \E in \in JxlInputs :
        /\ JxlInputOk(in)
        /\ \E sig \in JxlSignatureCheck(in) :
            IF sig \in {"JXL_SIG_NOT_ENOUGH_BYTES", "JXL_SIG_INVALID"}
            THEN OpenFails("jxl", "memory", in, "UNSUPPORTED",
                           Bump(acq, "pvt"), rel)
            ELSE Jxl_opened("memory", in,
                            [JxlZero EXCEPT !.owns_data = 0, !.data = "caller",
                                            !.data_len = in.len],
                            Bump(acq, "pvt"), rel)

\* Mutant: a failed lseek is reported as an unsupported file.
Jxl_open_path_return_seek(stage) ==
    CASE stage \in {"open", "mmap"} -> "BAD_PATH"
      [] stage \in {"lseek", "JxlSignatureCheck"} -> "UNSUPPORTED"
      [] OTHER -> "SUCCESS"

\* What open_path returns when it stops at a given call.
Jxl_open_path_return(stage) ==
    CASE stage \in {"open", "lseek", "mmap"} -> "BAD_PATH"
      [] stage = "JxlSignatureCheck" -> "UNSUPPORTED"
      [] OTHER -> "SUCCESS"

Jxl_open_path ==
    /\ pc = "none"
    /\ \E in \in JxlInputs, env \in PathEnvs :
        /\ JxlInputOk(in)
        /\ \E sig \in JxlSignatureCheck(in) :
            LET in2 == [len |-> in.len, sig |-> in.sig, env |-> env]
                pA == Bump(acq, "pvt")
                fdA == Bump(pA, "fd")
                fdR == Bump(rel, "fd")
                mapA == Bump(fdA, "mmap")
            IN  IF ~env.open
                THEN OpenFails("jxl", "path", in2, Jxl_open_path_return("open"),
                               pA, rel)
                ELSE IF ~env.seek
                THEN OpenFails("jxl", "path", in2,
                               Jxl_open_path_return("lseek"), fdA, fdR)
                ELSE IF ~MmapOk(env, in.len)
                THEN OpenFails("jxl", "path", in2,
                               Jxl_open_path_return("mmap"), fdA, fdR)
                ELSE IF sig \in {"JXL_SIG_NOT_ENOUGH_BYTES", "JXL_SIG_INVALID"}
                THEN OpenFails("jxl", "path", in2,
                               Jxl_open_path_return("JxlSignatureCheck"),
                               mapA, Munmap(fdR, "map"))
                ELSE Jxl_opened("path", in2,
                                [JxlZero EXCEPT !.owns_data = 1, !.data = "map",
                                                !.data_len = in.len],
                                mapA, fdR)

NullFrame == [data |-> "NULL", frametime |-> 0]

\* pvt->frames is a list of slots indexed from 0; the NULL list has no slot.
NoFrames(f) == DOMAIN f = {}

\* calloc(n, sizeof(struct jxl_frame)): n zeroed slots.
CallocFrames(n) == [i \in 0..(n - 1) |-> NullFrame]

\* Mutant: the growth hands back a zeroed list.
ReallocFrames_zeroed(f, n, from) == [i \in 0..(n - 1) |-> NullFrame]

\* realloc to n slots followed by the memset from slot `from` on.
ReallocFrames(f, n, from) ==
    [i \in 0..(n - 1) |-> IF i < from THEN f[i] ELSE NullFrame]

\* Mutant: no default for a degenerate tick rate.
JxlFrametime_nodefault(is_animation, info) ==
    IF is_animation # 0 /\ info.tps_denominator # 0
    THEN info.tps_numerator \div info.tps_denominator
    ELSE 0

\* The frametime first_frame stores for a frame (lines 147-155).
JxlFrametime(is_animation, info) ==
    IF is_animation # 0
    THEN IF info.tps_numerator # 0 /\ info.tps_denominator # 0
         THEN info.tps_numerator \div info.tps_denominator
         ELSE BACKEND_DEFAULT_FRAMETIME
    ELSE 0

\* JxlDecoderImageOutBufferSize for the 4-channel UINT8 format, in 4-byte
\* pixels: the buffer a frame is decoded into.
JxlImageOutBufferSize(width, height) == width * height

\* size_t sz = pvt->width * pvt->height * BACKEND_NB_CHANNELS: the product is
\* formed in int and then converted; a negative value stands for the size_t
\* above any allocation malloc grants.
Jxl_push_frame_sz(width, height) == Mul4Int(width * height)

\* push_frame reads frames[cur_frame]: the outcomes of that read.  A slot the
\* decoder filled gives an image.  With no frame list, or a slot at or beyond
\* nb_allocd_frames, or a NULL buffer copied from with a non-zero size, the
\* read is outside any object.
Jxl_push_frame(p, op) ==
    LET i == p.cur_frame
        sz == Jxl_push_frame_sz(p.width, p.height)
        bmp == [width |-> p.width, height |-> p.height,
                format |-> "IMV_ABGR", len |-> sz, copied |-> sz,
                srcpx |-> JxlImageOutBufferSize(p.width, p.height)]
        img(ft) == [op |-> op, img |-> "IMG", frametime |-> ft, frame |-> i,
                    failed |-> FALSE, pushed |-> TRUE, bmp |-> bmp]
        crash == [op |-> op, img |-> "CRASH", frametime |-> 0, frame |-> i,
                  failed |-> FALSE, pushed |-> TRUE, bmp |-> NoBitmap]
    IN  IF NoFrames(p.frames) \/ sz < 0 THEN {crash}
        ELSE IF i < 0 \/ i >= p.nb_allocd_frames
        THEN {crash, img(0), img(BACKEND_DEFAULT_FRAMETIME)}
        ELSE IF p.frames[i].data = "NULL"
        THEN IF sz = 0 THEN {crash, img(p.frames[i].frametime)} ELSE {crash}
        ELSE {img(p.frames[i].frametime)}

\* Mutant: first_frame returns without JxlDecoderDestroy.
Jxl_end_keeps_decoder(p, r, sts) ==
    /\ jxl' = p
    /\ ret' = r
    /\ jxld' = [jxld EXCEPT !.phase = "none",
                            !.last = IF sts = "JXL_DEC_SUCCESS"
                                     THEN sts ELSE "goto_end",
                            !.info = JxldZero.info]
    /\ rel' = rel
    /\ pc' = IF r.img = "CRASH" THEN "crashed" ELSE "ready"
    /\ calls' = [calls EXCEPT !.ok = r.img = "IMG"]

\* The label end: of first_frame: the decoder is destroyed and the call returns.
Jxl_end(p, r, sts) ==
    /\ jxl' = p
    /\ ret' = r
    /\ jxld' = [JxldZero EXCEPT !.state = "destroyed",
                                !.last = IF sts = "JXL_DEC_SUCCESS"
                                         THEN sts ELSE "goto_end",
                                !.full_images = jxld.full_images,
                                !.created = jxld.created]
    /\ rel' = Bump(rel, "decoder")
    /\ pc' = IF r.img = "CRASH" THEN "crashed" ELSE "ready"
    /\ calls' = [calls EXCEPT !.ok = r.img = "IMG"]

JxlFailed == [NoRet EXCEPT !.op = "first", !.failed = TRUE]

\* first_frame up to the decode loop: create the decoder, subscribe, set the
\* input, reset the counters and allocate the frame list.  The caller makes
\* at most maxFirst such calls.
Jxl_first_frame_upto(maxFirst) ==
    /\ pc = "ready"
    /\ backend = "jxl"
    /\ calls.first < maxFirst
    /\ calls' = [first |-> calls.first + 1, next |-> 0, ok |-> FALSE]
    /\ \E subscribed \in BOOLEAN, set \in BOOLEAN :
        IF ~subscribed \/ ~set
        THEN /\ acq' = Bump(acq, "decoder")
             /\ jxl' = jxl
             /\ ret' = JxlFailed
             /\ jxld' = [JxldZero EXCEPT !.state = "destroyed",
                                         !.last = "goto_end",
                                         !.created = jxld.created + 1]
             /\ rel' = Bump(rel, "decoder")
             /\ pc' = "ready"
        ELSE /\ acq' = Bump(Bump(acq, "decoder"), "frame_list")
             /\ jxl' = [jxl EXCEPT !.nb_frames = 0, !.cur_frame = 0,
                          !.nb_allocd_frames = BACKEND_NB_ALLOC_FRAMES,
                          !.frames = CallocFrames(BACKEND_NB_ALLOC_FRAMES)]
             /\ ret' = [NoRet EXCEPT !.op = "first"]
             /\ jxld' = [JxldZero EXCEPT !.state = "live", !.phase = "header",
                                         !.created = jxld.created + 1]
             /\ rel' = rel
             /\ pc' = "decoding"
    /\ UNCHANGED <<backend, mode, input, result, src, pvt, gif, gifInfo, png>>

Jxl_first_frame == Jxl_first_frame_upto(MaxFirst)

JxlLoop ==
    /\ pc = "decoding"
    /\ backend = "jxl"
    /\ jxld.state = "live"
    /\ UNCHANGED <<backend, mode, input, result, src, pvt, gif, gifInfo, png>>

\* JxlDecoderProcessInput returns JXL_DEC_SUCCESS: the loop ends, push_frame.
Jxl_dec_success ==
    /\ JxlLoop
    /\ jxld.phase = "between"
    /\ jxld.full_images >= 1
    /\ acq' = acq
    /\ \E r \in Jxl_push_frame(jxl, "first") :
        Jxl_end(jxl, r, "JXL_DEC_SUCCESS")

\* JXL_DEC_ERROR, JXL_DEC_NEED_MORE_INPUT or a status the switch does not know.
Jxl_dec_error ==
    /\ JxlLoop
    /\ acq' = acq
    /\ \E sts \in {"JXL_DEC_ERROR", "JXL_DEC_NEED_MORE_INPUT", "unknown"} :
        Jxl_end(jxl, JxlFailed, sts)

TpsValues == {0, 1, 10}

\* A dimension at which width * height * 4 no longer fits the int product.
JxlBigDim == 32768

\* xsize, ysize of JxlBasicInfo.
JxlSizes ==
    { <<w, h>> : w \in 1..MaxDim, h \in 1..MaxDim } \cup
    { <<JxlBigDim, JxlBigDim>> }

Jxl_dec_basic_info ==
    /\ JxlLoop
    /\ jxld.phase = "header"
    /\ acq' = acq
    /\ \E got \in BOOLEAN, wh \in JxlSizes, anim \in {0, 1},
          num \in TpsValues, den \in TpsValues :
        IF ~got
        THEN Jxl_end(jxl, JxlFailed, "JXL_DEC_BASIC_INFO")
        ELSE /\ jxl' = [jxl EXCEPT !.width = wh[1], !.height = wh[2],
                                   !.is_animation = anim]
             /\ jxld' = [jxld EXCEPT !.phase = "between",
                           !.last = "JXL_DEC_BASIC_INFO",
                           !.info = [tps_numerator |-> num,
                                     tps_denominator |-> den]]
             /\ UNCHANGED <<pc, ret, rel, calls>>

\* JXL_DEC_NEED_IMAGE_OUT_BUFFER, in a stream of at most maxFrames frames.
Jxl_need_image_out_buffer(maxFrames) ==
    /\ JxlLoop
    /\ jxld.phase = "between"
    /\ jxl.nb_frames < maxFrames
    /\ \E sized \in BOOLEAN, set \in BOOLEAN :
        IF ~sized
        THEN acq' = acq
             /\ Jxl_end(jxl, JxlFailed, "JXL_DEC_NEED_IMAGE_OUT_BUFFER")
        ELSE LET grow == jxl.nb_frames = jxl.nb_allocd_frames
                 n == IF grow
                      THEN jxl.nb_allocd_frames + BACKEND_NB_ALLOC_FRAMES
                      ELSE jxl.nb_allocd_frames
                 f == IF grow
                      THEN ReallocFrames(jxl.frames, n, jxl.nb_frames)
                      ELSE jxl.frames
                 slot == [data |-> "buf",
                          frametime |-> JxlFrametime(jxl.is_animation,
                                                     jxld.info)]
                 p == [jxl EXCEPT !.nb_allocd_frames = n,
                                  !.frames = [f EXCEPT ![jxl.nb_frames] = slot]]
             IN  /\ acq' = Bump(acq, "frame_buf")
                 /\ IF ~set
                    THEN Jxl_end(p, JxlFailed, "JXL_DEC_NEED_IMAGE_OUT_BUFFER")
                    ELSE /\ jxl' = p
                         /\ jxld' = [jxld EXCEPT !.phase = "image",
                                       !.last = "JXL_DEC_NEED_IMAGE_OUT_BUFFER"]
                         /\ UNCHANGED <<pc, ret, rel, calls>>

Jxl_dec_need_image_out_buffer == Jxl_need_image_out_buffer(MaxFrames)

Jxl_dec_full_image ==
    /\ JxlLoop
    /\ jxld.phase = "image"
    /\ jxl' = [jxl EXCEPT !.nb_frames = @ + 1]
    /\ jxld' = [jxld EXCEPT !.phase = "between", !.full_images = @ + 1,
                            !.last = "JXL_DEC_FULL_IMAGE"]
    /\ UNCHANGED <<pc, ret, acq, rel, calls>>

\* Mutant: the wraparound compares against nb_frames instead of nb_frames - 1.
JxlNextIndex_offbyone(cur, nb) == IF cur = nb THEN 0 ELSE cur + 1

JxlNextIndex(cur, nb) == IF cur = nb - 1 THEN 0 ELSE cur + 1

Jxl_next_frame ==
    /\ pc = "ready"
    /\ backend = "jxl"
    /\ calls.first > 0
    /\ calls.next < MaxCalls
    /\ calls' = [calls EXCEPT !.next = @ + 1]
    /\ LET p == [jxl EXCEPT !.cur_frame = JxlNextIndex(@, jxl.nb_frames)]
       IN  /\ jxl' = p
           /\ \E r \in Jxl_push_frame(p, "next") :
                /\ ret' = r
                /\ pc' = IF r.img = "CRASH" THEN "crashed" ELSE "ready"
    /\ UNCHANGED <<backend, mode, input, result, src, pvt, gif, gifInfo, png,
                   jxld, acq, rel>>

\* The frame buffers free_private frees: every non-NULL data of the list.
JxlBuffers(p) ==
    IF NoFrames(p.frames) THEN 0
    ELSE Cardinality({i \in 0..(p.nb_allocd_frames - 1) :
                        p.frames[i].data # "NULL"})

\* Mutant: free_private unmaps whatever data points to.
JxlOwnsInput_anydata(p) == p.data # "NULL"

\* free_private unmaps the input only when the Source owns it.
JxlOwnsInput(p) == p.owns_data # 0 /\ p.data # "NULL"

\* free_private of the JPEG-XL backend, on a live struct private.
Jxl_free_private ==
    LET r1 == IF JxlOwnsInput(jxl)
              THEN Munmap(rel, jxl.data) ELSE rel
        r2 == IF ~NoFrames(jxl.frames)
              THEN Bump(BumpBy(r1, "frame_buf", JxlBuffers(jxl)), "frame_list")
              ELSE r1
    IN  /\ rel' = Bump(r2, "pvt")
        /\ UNCHANGED <<gif, gifInfo, png, jxl, jxld>>

----------------------------------------------------------------------------

Release ==
    /\ pc = "ready"
    /\ pvt = "live"
    /\ \/ backend = "gif" /\ Gif_free_private
       \/ backend = "png" /\ Png_free_private
       \/ backend = "jxl" /\ Jxl_free_private
    /\ pc' = "released"
    /\ pvt' = "freed"
    /\ ret' = [NoRet EXCEPT !.op = "release"]
    /\ UNCHANGED <<backend, mode, input, result, src, calls, acq>>

\* A second release of the same Source: free_private gets the same non-null
\* pointer and runs again over the freed struct.  The allocator may abort on
\* the double free; otherwise the fields are read as the first call left them.
ReleaseAgain ==
    /\ pc = "released"
    /\ pvt = "freed"
    /\ \E aborts \in BOOLEAN :
        IF aborts
        THEN /\ pc' = "crashed"
             /\ UNCHANGED <<gif, gifInfo, png, jxl, jxld, rel>>
        ELSE /\ \/ backend = "gif" /\ Gif_free_private
                \/ backend = "png" /\ Png_free_private
                \/ backend = "jxl" /\ Jxl_free_private
             /\ pc' = "released_twice"
    /\ ret' = [NoRet EXCEPT !.op = "release"]
    /\ UNCHANGED <<backend, mode, input, result, src, pvt, calls, acq>>

Next ==
    \/ Gif_open_memory
    \/ Gif_open_path
    \/ Gif_first_frame
    \/ Gif_next_frame
    \/ Png_open_path
    \/ Png_open_memory
    \/ Png_load_image
    \/ Jxl_open_memory
    \/ Jxl_open_path
    \/ Jxl_first_frame
    \/ Jxl_dec_success
    \/ Jxl_dec_error
    \/ Jxl_dec_basic_info
    \/ Jxl_dec_need_image_out_buffer
    \/ Jxl_dec_full_image
    \/ Jxl_next_frame
    \/ Release

Spec == Init /\ [][Next]_vars

\* The same program with a caller that releases a Source twice.
NextRelease2 == Next \/ ReleaseAgain
SpecRelease2 == Init /\ [][NextRelease2]_vars

\* One load_first_frame on a memory-opened JPEG-XL animation long enough to
\* exhaust the first BACKEND_NB_ALLOC_FRAMES slots of the frame list.
Jxl_long_first_frame == Jxl_first_frame_upto(1)
Jxl_long_need_image_out_buffer == Jxl_need_image_out_buffer(MaxLongFrames)

NextLong ==
    \/ Jxl_open_memory
    \/ Jxl_long_first_frame
    \/ Jxl_dec_basic_info
    \/ Jxl_long_need_image_out_buffer
    \/ Jxl_dec_full_image
    \/ Jxl_dec_success
    \/ Jxl_dec_error
    \/ Release

SpecLong == Init /\ [][NextLong]_vars

----------------------------------------------------------------------------
(* Properties *)

Resources == DOMAIN NoCount

\* The bytes handed to open do not carry the backend's signature.
InputMismatch ==
    CASE backend = "png" -> input.agree < SIG_SIZE
      [] backend \in {"gif", "jxl"} -> input.sig # "VALID"
      [] OTHER -> FALSE

\* The file behind the path can be opened and read: no I/O call fails for a
\* reason of its own.
Readable == mode = "path" /\ \A k \in DOMAIN input.env : input.env[k]

\* C1: in every backend, a load call whose native decode step failed returns
\* a null image and frametime 0, and the Source is intact: the struct private
\* is live, and the native handles, the file and the input mapping are still
\* held (nothing of the Source has been released).
C1_SoftFailureKeepsSource ==
    (ret.failed /\ ret.op \in {"first", "next"}) =>
        /\ ret.img = "NULL"
        /\ ret.frametime = 0
        /\ pc = "ready" /\ src /\ pvt = "live"
        /\ rel.pvt = 0 /\ rel.mmap = 0 /\ rel.caller = 0
        /\ (mode = "path" /\ backend \in {"gif", "jxl"}) => acq.mmap = 1
        /\ backend = "gif" => gif.gif = "gif" /\ rel.decoder = 0
        /\ backend = "png" =>
            /\ png.png = "png" /\ png.info = "info"
            /\ rel.decoder = 0 /\ rel.file = 0
            /\ mode = "path" => png.file = "file"
        /\ backend = "jxl" => rel.frame_list = 0 /\ rel.frame_buf = 0

C1_Witness ==
    /\ backend = "png" /\ mode = "path"
    /\ ret.op = "first" /\ ret.failed

\* C2 (as claimed): for the JPEG-XL source, every load call after a
\* successful open returns an image or a null image, and push_frame only reads
\* a slot i with 0 <= i < nb_frames whose buffer is allocated.
C2_JxlPushInRange ==
    /\ pc # "crashed"
    /\ (backend = "jxl" /\ ret.pushed) =>
        /\ ret.img \in {"IMG", "NULL"}
        /\ ret.frame >= 0 /\ ret.frame < jxl.nb_frames
        /\ ~NoFrames(jxl.frames)
        /\ jxl.frames[ret.frame].data # "NULL"

\* C3: for a GIF source with N >= 1 frames, load_first_frame selects frame 0
\* and the k-th load_next_frame after it selects frame k mod N; the index
\* stays in 0..N-1.
C3_GifModularStep ==
    (backend = "gif" /\ src /\ gifInfo.frame_count >= 1) =>
        /\ gif.current_frame \in 0..(gifInfo.frame_count - 1)
        /\ ret.op = "first" => gif.current_frame = 0 /\ ret.frame = 0
        /\ ret.op = "next" =>
            /\ gif.current_frame = calls.next % gifInfo.frame_count
            /\ ret.frame = gif.current_frame

C3_Witness ==
    /\ backend = "gif" /\ gifInfo.frame_count = 3
    /\ calls.next = 3 /\ ret.op = "next"
    /\ ret.img = "IMG" /\ ret.frame = 0

\* C4: for a JPEG-XL source whose load_first_frame succeeded with N >= 1
\* frames, the equality-check wraparound is modular stepping: after k
\* load_next_frame calls the index is k mod N and the frame returned is that
\* one.
C4_JxlWrapIsModular ==
    (backend = "jxl" /\ calls.ok) =>
        /\ jxl.nb_frames >= 1
        /\ jxl.cur_frame = calls.next % jxl.nb_frames
        /\ ret.op \in {"first", "next"} =>
            /\ ret.img = "IMG"
            /\ ret.frame = jxl.cur_frame

C4_Witness ==
    /\ backend = "jxl" /\ calls.ok
    /\ jxl.nb_frames = 3 /\ calls.next = 4 /\ jxl.cur_frame = 1

\* C5 (as claimed): releasing a Source twice neither crashes nor releases
\* anything a second time: nothing is released more often than acquired.
C5_ReleaseTwiceSafe ==
    ret.op = "release" =>
        /\ pc # "crashed"
        /\ \A f \in Resources : rel[f] <= acq[f]

\* C6: the input-ownership discipline chosen by open never changes and
\* release matches it: a path-opened Source holds its mapping (GIF, JPEG-XL)
\* until release unmaps it once, a path-opened PNG Source closes its file
\* once, and a memory-opened Source never releases the caller's buffer.
C6_OwnershipMatchesOpen ==
    /\ rel.caller = 0
    /\ src =>
        /\ backend = "jxl" =>
            /\ jxl.owns_data = (IF mode = "path" THEN 1 ELSE 0)
            /\ jxl.data = (IF mode = "path" THEN "map" ELSE "caller")
        /\ backend = "gif" =>
            gif.data = (IF mode = "path" THEN "map" ELSE "NULL")
        /\ backend = "png" =>
            png.data = (IF mode = "path" THEN "NULL" ELSE "caller")
        /\ (mode = "path" /\ backend \in {"gif", "jxl"}) =>
            /\ acq.mmap = 1
            /\ rel.mmap = (IF pc = "released" THEN 1 ELSE 0)
        /\ (mode = "path" /\ backend = "png") =>
            /\ acq.file = 1
            /\ rel.file = (IF png.file = "NULL" THEN 1 ELSE 0)
            /\ pc = "released" => rel.file = 1
        /\ mode = "memory" =>
            /\ acq.mmap = 0 /\ rel.mmap = 0
            /\ acq.file = 0 /\ rel.file = 0

C6_Witness ==
    /\ pc = "released" /\ backend = "jxl" /\ mode = "memory"
    /\ calls.ok /\ calls.next > 0

\* C7 (as claimed): open_from_memory on bytes that do not carry the codec's
\* signature returns Unsupported and produces no Source.
C7_MemoryMismatchUnsupported ==
    (mode = "memory" /\ InputMismatch) => (result = "UNSUPPORTED" /\ ~src)

\* C8 (as claimed): open_from_path on a readable file whose content does not
\* match the codec returns Unsupported, for every length, and BadPath is
\* returned only when an I/O call failed.
C8_ReadableMismatchUnsupported ==
    /\ (Readable /\ InputMismatch) => result = "UNSUPPORTED"
    /\ (mode = "path" /\ result = "BAD_PATH") => ~Readable

\* C9: open_from_path returns BadPath and produces no Source whenever the
\* file cannot be opened (all backends) or lseek or mmap fails (GIF, JPEG-XL).
C9_IoFailureIsBadPath ==
    (/\ mode = "path"
     /\ \/ ~input.env.open
        \/ backend \in {"gif", "jxl"} /\ (~input.env.seek \/ ~input.env.map)) =>
        (result = "BAD_PATH" /\ ~src /\ pc = "noSource")

C9_Witness ==
    /\ backend = "jxl" /\ mode = "path"
    /\ input.env.open /\ ~input.env.seek
    /\ result = "BAD_PATH"

C10_EagerState ==
    (backend = "jxl" /\ calls.ok) =>
        /\ jxld.state = "destroyed"
        /\ jxld.last = "JXL_DEC_SUCCESS"
        /\ acq.decoder = rel.decoder
        /\ jxl.nb_frames >= 1
        /\ jxl.nb_frames = jxld.full_images
        /\ \A i \in 0..(jxl.nb_frames - 1) : jxl.frames[i].data # "NULL"

C10_NextStep ==
    (backend = "jxl" /\ calls'.next = calls.next + 1) =>
        /\ jxld' = jxld
        /\ acq' = acq
        /\ jxl'.frames = jxl.frames
        /\ jxl'.nb_frames = jxl.nb_frames

\* C10: a successful JPEG-XL load_first_frame ended on the decoder's success
\* status with nb_frames equal to the number of full-image events and the
\* decoder destroyed; every load_next_frame leaves the decoder, the frame
\* list and the frame count untouched.
C10_JxlEagerDecode == [](C10_EagerState) /\ [][C10_NextStep]_vars

C10_Witness ==
    /\ backend = "jxl" /\ calls.ok
    /\ jxl.nb_frames = 3 /\ calls.next = 2 /\ ret.op = "next"

\* C11 (as claimed): every non-null image returned by a load call wraps a
\* bitmap of format ABGR whose data buffer is exactly 4 * width * height bytes
\* long, every byte of it copied from a decoded frame buffer at least that
\* large.
C11_BitmapMatchesDimensions ==
    ret.img = "IMG" =>
        /\ ret.bmp.format = "IMV_ABGR"
        /\ ret.bmp.len % 4 = 0
        /\ ret.bmp.len \div 4 = ret.bmp.width * ret.bmp.height
        /\ ret.bmp.copied = ret.bmp.len
        /\ ret.bmp.copied \div 4 <= ret.bmp.srcpx

\* C12: for a PNG Source, a successful load_first_frame has destroyed the
\* read/info structs and closed the file while the struct private is still
\* allocated; a failed one has destroyed nothing; and once the Source is
\* released the structs and the file have each been destroyed exactly once
\* and the struct private freed, whichever way the load went.
C12_PngHandleLifecycle ==
    (backend = "png" /\ src) =>
        /\ rel.decoder <= 1 /\ rel.file <= 1
        /\ (pc = "ready" /\ calls.ok) =>
            /\ png.png = "NULL" /\ png.info = "NULL" /\ png.file = "NULL"
            /\ rel.decoder = 1 /\ rel.file = acq.file
            /\ pvt = "live" /\ rel.pvt = 0
        /\ (pc = "ready" /\ ~calls.ok) =>
            /\ png.png = "png" /\ png.info = "info"
            /\ rel.decoder = 0 /\ rel.file = 0
        /\ pc = "released" =>
            /\ acq.decoder = 1 /\ rel.decoder = 1
            /\ acq.file = (IF mode = "path" THEN 1 ELSE 0)
            /\ rel.file = acq.file
            /\ rel.pvt = 1

\* A path-opened PNG released after a failed and then a successful load.
C12_Witness ==
    /\ backend = "png" /\ mode = "path" /\ pc = "released"
    /\ calls.first = 2 /\ calls.ok

\* C13 (as claimed): in a memory-opened PNG Source the read callback keeps
\* 0 <= pos <= len, advances pos by exactly the bytes it copied, and a
\* request it refused made the call it served fail: the open returned
\* Unsupported, or the load returned a null image.
C13_ShortReadIsError ==
    (backend = "png" /\ mode = "memory" /\ src) =>
        /\ png.pos = png.copied
        /\ 0 <= png.pos /\ png.pos <= png.len
        /\ png.refused > 0 =>
            IF calls.first = 0 THEN result = "UNSUPPORTED"
            ELSE ret.img = "NULL"

C14_FailedState ==
    (backend = "gif" /\ ret.failed /\ ret.op = "next") =>
        /\ pc = "ready" /\ pvt = "live"
        /\ gif.gif = "gif" /\ rel.decoder = 0
        /\ gif.data = (IF mode = "path" THEN "map" ELSE "NULL")
        /\ rel.mmap = 0

C14_NextStep ==
    (backend = "gif" /\ calls'.next = calls.next + 1) =>
        /\ gif'.current_frame =
              (gif.current_frame + 1) % gifInfo.frame_count
        /\ gif'.gif = gif.gif /\ gif'.data = gif.data /\ gif'.len = gif.len
        /\ acq' = acq /\ rel' = rel
        /\ ret'.frame = gif'.current_frame
        /\ ~ret'.failed => ret'.img = "IMG"

\* C14: a GIF load_next_frame advances the frame index by exactly one modulo
\* the frame count whether or not the decode succeeds; a failed decode leaves
\* the decoder handle and the input mapping as they were, and the next call
\* whose decode succeeds returns a non-null image for the following index.
C14_GifFailureKeepsStepping == [](C14_FailedState) /\ [][C14_NextStep]_vars

\* A second load_next_frame that failed on a two-frame GIF: the index has
\* gone 0 -> 1 -> 0.
C14_Witness ==
    /\ backend = "gif" /\ gifInfo.frame_count = 2
    /\ ret.failed /\ ret.op = "next"
    /\ calls.next = 2 /\ gif.current_frame = 0

\* C15 (as claimed): once a JPEG-XL Source is released, every frame list and
\* every frame buffer allocated during its lifetime has been freed exactly
\* once, however many load_first_frame calls were made.
C15_JxlRetryLeakFree ==
    (backend = "jxl" /\ pc = "released") =>
        /\ rel.frame_list = acq.frame_list
        /\ rel.frame_buf = acq.frame_buf

\* Output-buffer requests served so far in the running decode loop.
JxlRequestsServed == jxl.nb_frames + (IF jxld.phase = "image" THEN 1 ELSE 0)

C16_LoopState ==
    (backend = "jxl" /\ pc = "decoding") =>
        /\ jxl.nb_allocd_frames =
              BACKEND_NB_ALLOC_FRAMES *
                (1 + (Max(JxlRequestsServed, 1) - 1) \div BACKEND_NB_ALLOC_FRAMES)
        /\ jxl.nb_frames <= jxl.nb_allocd_frames
        /\ DOMAIN jxl.frames = 0..(jxl.nb_allocd_frames - 1)
        /\ \A i \in 0..(jxl.nb_frames - 1) : jxl.frames[i].data = "buf"
        /\ jxld.phase = "image" =>
            /\ jxl.nb_frames < jxl.nb_allocd_frames
            /\ jxl.frames[jxl.nb_frames].data = "buf"
        /\ \A i \in JxlRequestsServed..(jxl.nb_allocd_frames - 1) :
              jxl.frames[i].data = "NULL"

C16_GrowthStep ==
    (backend = "jxl" /\ pc = "decoding") =>
        /\ jxl'.nb_allocd_frames # jxl.nb_allocd_frames =>
            /\ jxl'.nb_allocd_frames =
                  jxl.nb_allocd_frames + BACKEND_NB_ALLOC_FRAMES
            /\ jxl.nb_frames = jxl.nb_allocd_frames
            /\ jxld.phase = "between"
            /\ jxl'.frames[jxl.nb_frames].data = "buf"
            /\ \A i \in 0..(jxl.nb_frames - 1) :
                  jxl'.frames[i] = jxl.frames[i]
        /\ (jxl'.frames # jxl.frames /\ jxl.nb_frames < jxl.nb_allocd_frames)
              => jxl'.nb_allocd_frames = jxl.nb_allocd_frames

\* C16: in the decode loop of first_frame the frame list has 64 slots until
\* an output-buffer request finds nb_frames equal to the capacity, and then
\* grows by exactly 64; nb_frames never exceeds the capacity, the slot an
\* output-buffer request writes is slot nb_frames, below the capacity, slots
\* 0..nb_frames-1 keep their buffers and frametimes across a growth, and
\* every slot above the one written has a NULL buffer.
C16_JxlListGrowth == [](C16_LoopState) /\ [][C16_GrowthStep]_vars

\* The 66th output-buffer request has been served from the grown list.
C16_Witness ==
    /\ backend = "jxl" /\ pc = "decoding"
    /\ jxl.nb_frames = BACKEND_NB_ALLOC_FRAMES /\ jxld.phase = "image"
    /\ jxl.nb_allocd_frames = 2 * BACKEND_NB_ALLOC_FRAMES

\* C17: every frame buffer the JPEG-XL decode loop has allocated carries
\* frametime 0 when the image is not animated, 100 when it is animated and
\* the tick-rate numerator or denominator is zero, and otherwise the integer
\* quotient tps_numerator / tps_denominator; a successful load call reports
\* the frametime stored with the frame it returns.
C17_JxlFrametime ==
    /\ (backend = "jxl" /\ pc = "decoding") =>
        \A i \in DOMAIN jxl.frames :
            jxl.frames[i].data # "NULL" =>
                jxl.frames[i].frametime =
                    (CASE jxl.is_animation = 0 -> 0
                       [] jxl.is_animation # 0 /\
                          (jxld.info.tps_numerator = 0 \/
                           jxld.info.tps_denominator = 0) -> 100
                       [] OTHER -> jxld.info.tps_numerator \div
                                   jxld.info.tps_denominator)
    /\ (backend = "jxl" /\ calls.ok /\ ret.img = "IMG") =>
        ret.frametime = jxl.frames[ret.frame].frametime

\* Two frames of an animation with 10 ticks per second have been stored.
C17_Witness ==
    /\ backend = "jxl" /\ pc = "decoding" /\ jxl.is_animation = 1
    /\ jxl.nb_frames = 2
    /\ jxld.info = [tps_numerator |-> 10, tps_denominator |-> 1]
    /\ jxl.frames[1].frametime = 10

\* C18: every non-null image a GIF load call returns is the frame at the
\* current index and carries a frametime of 10 times that frame's native
\* delay (hundredths of a second), so a delay of 10 is reported as 100 ms.
C18_GifFrametime ==
    (backend = "gif" /\ ret.img = "IMG" /\ ret.op \in {"first", "next"}) =>
        /\ ret.frame = gif.current_frame
        /\ ret.frametime = 10 * gifInfo.delay[gif.current_frame]
        /\ gifInfo.delay[gif.current_frame] = 10 => ret.frametime = 100

\* Frame 1 of a GIF whose frames 0 and 1 have different delays.
C18_Witness ==
    /\ backend = "gif" /\ ret.op = "next" /\ ret.img = "IMG"
    /\ gifInfo.frame_count = 3 /\ calls.next = 4 /\ ret.frame = 1
    /\ gifInfo.delay[0] = 2 /\ gifInfo.delay[1] = 10
    /\ ret.frametime = 100

\* C19 (as claimed): when an open call returns Unsupported or BadPath,
\* nothing it acquired is still held: every descriptor, FILE, mapping,
\* decoder object and struct private acquired has been released.
C19_FailedOpenHoldsNothing ==
    (pc = "noSource" /\ result \in {"UNSUPPORTED", "BAD_PATH"}) =>
        \A f \in Resources : rel[f] = acq[f]

\* C20 (as claimed): for a PNG Source opened from a caller buffer of L bytes,
\* the signature check was handed at most L bytes, the view retained has
\* length L - 8 with no wrap-around, every byte read through it lies within
\* the first L bytes of the buffer, and the buffer is never freed.
C20_PngViewInsideBuffer ==
    (backend = "png" /\ mode = "memory" /\ src) =>
        /\ png.inspected <= input.len
        /\ png.len = input.len - SIG_SIZE
        /\ png.hi <= input.len
        /\ rel.caller = 0

====
